---- MODULE Spec2Model ----
(***************************************************************************)
(* The auto-braking controller of src/ch10.cpp: AutoBrake, bound to a      *)
(* MockServiceBus, driven by set_collision_threshold_s calls and by the    *)
(* deliveries bus.speed_update_callback(..), bus.car_detected_callback(..) *)
(* and bus.speed_limit_callback(..) that the tests of the file make.       *)
(* SpecObjects adds a second bus and a second AutoBrake, constructed       *)
(* statement by statement on either bus, to follow which object a          *)
(* registered lambda is bound to.                                          *)
(*                                                                         *)
(* A C++ double is modelled as an IEEE-754 value: a NaN, a signed infinity *)
(* or a signed rational (sign and magnitude, so that -0.0 exists).  The    *)
(* quotient of two finite doubles is kept as the exact rational; the       *)
(* machine rounds it to the nearest double, which is monotone and leaves   *)
(* the small thresholds used here fixed, so every comparison the code      *)
(* makes on the quotient has the outcome computed here.                    *)
(***************************************************************************)
EXTENDS Integers, Sequences, FiniteSets

VARIABLES
    auto_brake,   \* the AutoBrake object: its three private fields
    bus,          \* the MockServiceBus object: its five fields
    auto_brake_2, \* a second AutoBrake object, or NoObject before it is made
    bus_2,        \* a second MockServiceBus object
    ctor,         \* where the constructor of auto_brake_2 stands, and its bus
    thrown,       \* the exception the last operation ended with, or "none"
    trace         \* the operations performed since construction that the
                  \* specification keeps (Spec and SpecObjects: the last
                  \* one; SpecScenario: all)

vars == <<auto_brake, bus, auto_brake_2, bus_2, ctor, thrown, trace>>

----------------------------------------------------------------------------
(* Bounds of the model *)

\* commands_published is an int that only grows: runs stop publishing here
MaxPublished == 2

\* SpecScenario follows test-like runs of at most this many operations
MaxTrace == 4

----------------------------------------------------------------------------
(* double *)

RECURSIVE GCD(_, _)
GCD(a, b) == IF b = 0 THEN a ELSE GCD(b, a % b)

NaN == [cls |-> "nan", neg |-> FALSE, num |-> 0, den |-> 1]

Inf(negative) == [cls |-> "inf", neg |-> negative, num |-> 0, den |-> 1]

\* the finite double (-1)^negative * n / d, in lowest terms; n >= 0, d > 0
Fin(negative, n, d) ==
    LET g == GCD(n, d)
    IN  [cls |-> "fin", neg |-> negative, num |-> n \div g, den |-> d \div g]

\* the double an integer literal or an integer operand converts to
ToDouble(i) == IF i < 0 THEN Fin(TRUE, -i, 1) ELSE Fin(FALSE, i, 1)

NegZero == Fin(TRUE, 0, 1)

Half == Fin(FALSE, 1, 2)

IsNaN(a) == a.cls = "nan"

\* the signed numerator of a finite double
Sgn(a) == IF a.neg THEN -a.num ELSE a.num

\* a < b on doubles: false when either is a NaN; -0.0 and 0.0 compare equal
DLt(a, b) ==
    /\ ~IsNaN(a)
    /\ ~IsNaN(b)
    /\ IF a.cls = "inf" THEN a.neg /\ ~(b.cls = "inf" /\ b.neg)
       ELSE IF b.cls = "inf" THEN ~b.neg
       ELSE Sgn(a) * b.den < Sgn(b) * a.den

\* a == b on doubles
DEq(a, b) ==
    /\ ~IsNaN(a)
    /\ ~IsNaN(b)
    /\ IF a.cls = "inf" \/ b.cls = "inf"
       THEN a.cls = b.cls /\ a.neg = b.neg
       ELSE Sgn(a) * b.den = Sgn(b) * a.den

DGt(a, b) == DLt(b, a)

DLe(a, b) == DLt(a, b) \/ DEq(a, b)

DGe(a, b) == DLe(b, a)

\* a / b on doubles: no trap; x/0 is a signed infinity, 0/0 and inf/inf a NaN
DDiv(a, b) ==
    IF IsNaN(a) \/ IsNaN(b) THEN NaN
    ELSE IF a.cls = "inf"
         THEN IF b.cls = "inf" THEN NaN ELSE Inf(a.neg # b.neg)
    ELSE IF b.cls = "inf" THEN Fin(a.neg # b.neg, 0, 1)
    ELSE IF b.num = 0
         THEN IF a.num = 0 THEN NaN ELSE Inf(a.neg # b.neg)
    ELSE Fin(a.neg # b.neg, a.num * b.den, a.den * b.num)

----------------------------------------------------------------------------
(* Event types *)

SpeedUpdate(velocity_mps) == [velocity_mps |-> velocity_mps]

CarDetected(distance_m, velocity_mps) ==
    [distance_m |-> distance_m, velocity_mps |-> velocity_mps]

\* speed_mps is an unsigned short
USHRT_MAX == 65535

SpeedLimitDetected(speed_mps) == [speed_mps |-> speed_mps]

BrakeCommand(time_to_collision_s) == [time_to_collision_s |-> time_to_collision_s]

----------------------------------------------------------------------------
(* MockServiceBus *)

\* a default-constructed std::function
Empty == [target |-> "none"]

\* MockServiceBus bus{}: every member value-initialized
MockServiceBus ==
    [last_command          |-> BrakeCommand(ToDouble(0)),
     commands_published    |-> 0,
     speed_update_callback |-> Empty,
     car_detected_callback |-> Empty,
     speed_limit_callback  |-> Empty]

\* a publish that counts the command and does not keep it
publish_CountsOnly(b, cmd) == [b EXCEPT !.commands_published = @ + 1]

publish(b, cmd) ==
    [b EXCEPT !.commands_published = @ + 1, !.last_command = cmd]

\* a subscribe that keeps the callback already in the slot
subscribe_SpeedUpdate_KeepsFirst(b, callback) ==
    IF b.speed_update_callback = Empty
    THEN [b EXCEPT !.speed_update_callback = callback]
    ELSE b

subscribe_SpeedUpdate(b, callback) == [b EXCEPT !.speed_update_callback = callback]

\* a subscribe that keeps the callback already in the slot
subscribe_CarDetected_KeepsFirst(b, callback) ==
    IF b.car_detected_callback = Empty
    THEN [b EXCEPT !.car_detected_callback = callback]
    ELSE b

subscribe_CarDetected(b, callback) == [b EXCEPT !.car_detected_callback = callback]

subscribe_SpeedLimit(b, callback) == [b EXCEPT !.speed_limit_callback = callback]

----------------------------------------------------------------------------
(* AutoBrake *)

\* the three lambdas the constructor registers
SpeedUpdateHandler == "AutoBrake::on_speed_update"

CarDetectedHandler == "AutoBrake::on_car_detected"

SpeedLimitHandler == "AutoBrake::on_speed_limit_detected"

\* a lambda object: the code of the lambda with its captures [this, &bus],
\* the objects named as the variables that hold them
Closure(lambda, this, bus_ref) == [lambda |-> lambda, this |-> this, bus |-> bus_ref]

InitialThreshold == 5

InitialSpeedLimit == 39

\* the member initializers of the constructor
AutoBrakeMembers ==
    [collision_threshold_s  |-> ToDouble(InitialThreshold),
     last_known_speed_limit |-> InitialSpeedLimit,
     speed_mps              |-> ToDouble(0)]

\* bus.subscribe([this, &bus](const SpeedUpdate& update) {..})
Ctor_subscribe_SpeedUpdate(this, bus_ref, b) ==
    subscribe_SpeedUpdate(b, Closure(SpeedUpdateHandler, this, bus_ref))

\* a constructor that leaves out the CarDetected subscription
Ctor_subscribe_CarDetected_LeftOut(this, bus_ref, b) == b

\* bus.subscribe([this, &bus](const CarDetected& cd) {..})
Ctor_subscribe_CarDetected(this, bus_ref, b) ==
    subscribe_CarDetected(b, Closure(CarDetectedHandler, this, bus_ref))

\* a constructor whose SpeedLimitDetected lambda captures the first AutoBrake
Ctor_subscribe_SpeedLimit_CapturesFirst(this, bus_ref, b) ==
    subscribe_SpeedLimit(b, Closure(SpeedLimitHandler, "auto_brake", bus_ref))

\* bus.subscribe([this, &bus](const SpeedLimitDetected& limit) {..})
Ctor_subscribe_SpeedLimit(this, bus_ref, b) ==
    subscribe_SpeedLimit(b, Closure(SpeedLimitHandler, this, bus_ref))

\* a constructor that value-initializes last_known_speed_limit instead
AutoBrake_ZeroLimit(this, bus_ref, b) ==
    [ab  |-> [AutoBrakeMembers EXCEPT !.last_known_speed_limit = 0],
     bus |-> Ctor_subscribe_SpeedLimit(this, bus_ref,
                 Ctor_subscribe_CarDetected(this, bus_ref,
                     Ctor_subscribe_SpeedUpdate(this, bus_ref, b)))]

\* AutoBrake this{ bus_ref }, b the bus as the constructor finds it: the
\* member initializers, then the three subscribes
AutoBrake(this, bus_ref, b) ==
    [ab  |-> AutoBrakeMembers,
     bus |-> Ctor_subscribe_SpeedLimit(this, bus_ref,
                 Ctor_subscribe_CarDetected(this, bus_ref,
                     Ctor_subscribe_SpeedUpdate(this, bus_ref, b)))]

\* a SpeedUpdate lambda that brakes once and then stays silent
OnSpeedUpdate_Latched(ab, b, update) ==
    IF DGt(update.velocity_mps, ToDouble(ab.last_known_speed_limit))
    THEN IF b.commands_published = 0
         THEN [ab |-> ab, bus |-> publish(b, BrakeCommand(ToDouble(0)))]
         ELSE [ab |-> ab, bus |-> b]
    ELSE [ab |-> [ab EXCEPT !.speed_mps = update.velocity_mps], bus |-> b]

\* a SpeedUpdate lambda that also stores an overspeed reading
OnSpeedUpdate_StoresOverspeed(ab, b, update) ==
    IF DGt(update.velocity_mps, ToDouble(ab.last_known_speed_limit))
    THEN [ab  |-> [ab EXCEPT !.speed_mps = update.velocity_mps],
          bus |-> publish(b, BrakeCommand(ToDouble(0)))]
    ELSE [ab |-> [ab EXCEPT !.speed_mps = update.velocity_mps], bus |-> b]

\* a SpeedUpdate lambda that compares with >=
OnSpeedUpdate_BrakesAtLimit(ab, b, update) ==
    IF DGe(update.velocity_mps, ToDouble(ab.last_known_speed_limit))
    THEN [ab |-> ab, bus |-> publish(b, BrakeCommand(ToDouble(0)))]
    ELSE [ab |-> [ab EXCEPT !.speed_mps = update.velocity_mps], bus |-> b]

\* [this, &bus](const SpeedUpdate& update)
OnSpeedUpdate(ab, b, update) ==
    IF DGt(update.velocity_mps, ToDouble(ab.last_known_speed_limit))
    THEN LET time_to_collision_s == ToDouble(0)
         IN  [ab |-> ab, bus |-> publish(b, BrakeCommand(time_to_collision_s))]
    ELSE [ab |-> [ab EXCEPT !.speed_mps = update.velocity_mps], bus |-> b]

\* a CarDetected lambda that keeps the detected car's velocity as the speed
OnCarDetected_StoresCarVelocity(ab, b, cd) ==
    LET relative_velocity_mps == ab.speed_mps
        time_to_collision_s   == DDiv(cd.distance_m, relative_velocity_mps)
        stored                == [ab EXCEPT !.speed_mps = cd.velocity_mps]
    IN  IF /\ DGt(time_to_collision_s, ToDouble(0))
           /\ DLe(time_to_collision_s, ab.collision_threshold_s)
        THEN [ab |-> stored, bus |-> publish(b, BrakeCommand(time_to_collision_s))]
        ELSE [ab |-> stored, bus |-> b]

\* a CarDetected lambda that does not test the sign of the time to collision
OnCarDetected_NoPositiveCheck(ab, b, cd) ==
    LET relative_velocity_mps == ab.speed_mps
        time_to_collision_s   == DDiv(cd.distance_m, relative_velocity_mps)
    IN  IF DLe(time_to_collision_s, ab.collision_threshold_s)
        THEN [ab |-> ab, bus |-> publish(b, BrakeCommand(time_to_collision_s))]
        ELSE [ab |-> ab, bus |-> b]

\* a CarDetected lambda that leaves out the threshold
OnCarDetected_NoThreshold(ab, b, cd) ==
    LET relative_velocity_mps == ab.speed_mps
        time_to_collision_s   == DDiv(cd.distance_m, relative_velocity_mps)
    IN  IF DGt(time_to_collision_s, ToDouble(0))
        THEN [ab |-> ab, bus |-> publish(b, BrakeCommand(time_to_collision_s))]
        ELSE [ab |-> ab, bus |-> b]

\* a CarDetected lambda that divides by the detected car's velocity
OnCarDetected_UsesCarVelocity(ab, b, cd) ==
    LET relative_velocity_mps == cd.velocity_mps
        time_to_collision_s   == DDiv(cd.distance_m, relative_velocity_mps)
    IN  IF /\ DGt(time_to_collision_s, ToDouble(0))
           /\ DLe(time_to_collision_s, ab.collision_threshold_s)
        THEN [ab |-> ab, bus |-> publish(b, BrakeCommand(time_to_collision_s))]
        ELSE [ab |-> ab, bus |-> b]

\* a CarDetected lambda whose threshold is an exclusive bound
OnCarDetected_ExclusiveThreshold(ab, b, cd) ==
    LET relative_velocity_mps == ab.speed_mps
        time_to_collision_s   == DDiv(cd.distance_m, relative_velocity_mps)
    IN  IF /\ DGt(time_to_collision_s, ToDouble(0))
           /\ DLt(time_to_collision_s, ab.collision_threshold_s)
        THEN [ab |-> ab, bus |-> publish(b, BrakeCommand(time_to_collision_s))]
        ELSE [ab |-> ab, bus |-> b]

\* [this, &bus](const CarDetected& cd)
OnCarDetected(ab, b, cd) ==
    LET relative_velocity_mps == ab.speed_mps
        time_to_collision_s   == DDiv(cd.distance_m, relative_velocity_mps)
    IN  IF /\ DGt(time_to_collision_s, ToDouble(0))
           /\ DLe(time_to_collision_s, ab.collision_threshold_s)
        THEN [ab |-> ab, bus |-> publish(b, BrakeCommand(time_to_collision_s))]
        ELSE [ab |-> ab, bus |-> b]

\* a SpeedLimitDetected lambda that also cuts the stored speed to the new limit
OnSpeedLimitDetected_ClampsSpeed(ab, b, limit) ==
    LET stored == [ab EXCEPT !.last_known_speed_limit = limit.speed_mps]
    IN  IF DGt(stored.speed_mps, ToDouble(stored.last_known_speed_limit))
        THEN [ab  |-> [stored EXCEPT !.speed_mps = ToDouble(limit.speed_mps)],
              bus |-> publish(b, BrakeCommand(ToDouble(0)))]
        ELSE [ab |-> stored, bus |-> b]

\* a SpeedLimitDetected lambda that keeps the limit in a signed 16-bit member
OnSpeedLimitDetected_SignedShort(ab, b, limit) ==
    LET stored == [ab EXCEPT !.last_known_speed_limit =
                       IF limit.speed_mps > 32767
                       THEN limit.speed_mps - (USHRT_MAX + 1)
                       ELSE limit.speed_mps]
    IN  IF DGt(stored.speed_mps, ToDouble(stored.last_known_speed_limit))
        THEN [ab |-> stored, bus |-> publish(b, BrakeCommand(ToDouble(0)))]
        ELSE [ab |-> stored, bus |-> b]

\* a SpeedLimitDetected lambda that brakes only when the limit changes
OnSpeedLimitDetected_BrakesOnlyOnChange(ab, b, limit) ==
    LET stored == [ab EXCEPT !.last_known_speed_limit = limit.speed_mps]
    IN  IF /\ ab.last_known_speed_limit # limit.speed_mps
           /\ DGt(stored.speed_mps, ToDouble(stored.last_known_speed_limit))
        THEN [ab |-> stored, bus |-> publish(b, BrakeCommand(ToDouble(0)))]
        ELSE [ab |-> stored, bus |-> b]

\* a SpeedLimitDetected lambda that compares with the limit it replaces
OnSpeedLimitDetected_ComparesOldLimit(ab, b, limit) ==
    LET stored == [ab EXCEPT !.last_known_speed_limit = limit.speed_mps]
    IN  IF DGt(ab.speed_mps, ToDouble(ab.last_known_speed_limit))
        THEN [ab |-> stored, bus |-> publish(b, BrakeCommand(ToDouble(0)))]
        ELSE [ab |-> stored, bus |-> b]

\* a SpeedLimitDetected lambda whose publication comes back to the controller
\* as a SpeedUpdate of the current speed
OnSpeedLimitDetected_Reentrant(ab, b, limit) ==
    LET stored == [ab EXCEPT !.last_known_speed_limit = limit.speed_mps]
    IN  IF DGt(stored.speed_mps, ToDouble(stored.last_known_speed_limit))
        THEN OnSpeedUpdate(stored, publish(b, BrakeCommand(ToDouble(0))),
                           SpeedUpdate(stored.speed_mps))
        ELSE [ab |-> stored, bus |-> b]

\* [this, &bus](const SpeedLimitDetected& limit)
OnSpeedLimitDetected(ab, b, limit) ==
    LET stored == [ab EXCEPT !.last_known_speed_limit = limit.speed_mps]
    IN  IF DGt(stored.speed_mps, ToDouble(stored.last_known_speed_limit))
        THEN LET time_to_collision_s == ToDouble(0)
             IN  [ab |-> stored, bus |-> publish(b, BrakeCommand(time_to_collision_s))]
        ELSE [ab |-> stored, bus |-> b]

\* the call of a std::function holding one of the lambdas, ab and b the
\* objects its captures refer to
Invoke(callback, ab, b, event) ==
    CASE callback.lambda = SpeedUpdateHandler -> OnSpeedUpdate(ab, b, event)
      [] callback.lambda = CarDetectedHandler -> OnCarDetected(ab, b, event)
      [] callback.lambda = SpeedLimitHandler  -> OnSpeedLimitDetected(ab, b, event)

\* a setter that assigns before it validates
set_collision_threshold_s_StoreFirst(ab, x) ==
    [ab     |-> [ab EXCEPT !.collision_threshold_s = x],
     thrown |-> IF DLt(x, ToDouble(1)) THEN "out_of_range" ELSE "none"]

\* a setter that validates with x <= 1
set_collision_threshold_s_RejectsOne(ab, x) ==
    IF DLe(x, ToDouble(1))
    THEN [ab |-> ab, thrown |-> "out_of_range"]
    ELSE [ab |-> [ab EXCEPT !.collision_threshold_s = x], thrown |-> "none"]

set_collision_threshold_s(ab, x) ==
    IF DLt(x, ToDouble(1))
    THEN [ab |-> ab, thrown |-> "out_of_range"]
    ELSE [ab |-> [ab EXCEPT !.collision_threshold_s = x], thrown |-> "none"]

get_collision_threshold_s == auto_brake.collision_threshold_s

get_speed_mps == auto_brake.speed_mps

get_last_known_speed_limit == auto_brake.last_known_speed_limit

----------------------------------------------------------------------------
(* The operations a test performs on the two objects *)

OpSetThreshold(x) == [name |-> "set_collision_threshold_s", arg |-> x]

OpSpeedUpdate(ev) == [name |-> "speed_update_callback", arg |-> ev]

OpCarDetected(ev) == [name |-> "car_detected_callback", arg |-> ev]

OpSpeedLimit(ev) == [name |-> "speed_limit_callback", arg |-> ev]

\* an object that is not constructed yet
NoObject == [constructed |-> FALSE]

\* the objects by the names of the variables that hold them
Controller(this) == IF this = "auto_brake" THEN auto_brake ELSE auto_brake_2

Bus(bus_ref) == IF bus_ref = "bus" THEN bus ELSE bus_2

\* a write to the object this, the other AutoBrake untouched
StoreController(this, ab) ==
    IF this = "auto_brake"
    THEN auto_brake' = ab /\ UNCHANGED auto_brake_2
    ELSE auto_brake_2' = ab /\ UNCHANGED auto_brake

\* a write to the object bus_ref, the other MockServiceBus untouched
StoreBus(bus_ref, b) ==
    IF bus_ref = "bus"
    THEN bus' = b /\ UNCHANGED bus_2
    ELSE bus_2' = b /\ UNCHANGED bus

\* the constructor of auto_brake_2 is not running
NotConstructing == ctor.at \in {"not started", "done"}

\* this.set_collision_threshold_s(x)
Call_set_collision_threshold_s(this, x) ==
    LET r == set_collision_threshold_s(Controller(this), x)
    IN  /\ NotConstructing
        /\ Controller(this) # NoObject
        /\ StoreController(this, r.ab)
        /\ thrown' = r.thrown
        /\ UNCHANGED <<bus, bus_2, ctor>>

\* callback(event) on a slot of a bus: an empty std::function throws, a full
\* one runs the lambda to completion on the objects it captured
Deliver(callback, event) ==
    /\ NotConstructing
    /\ UNCHANGED ctor
    /\ IF callback = Empty
       THEN /\ thrown' = "bad_function_call"
            /\ UNCHANGED <<auto_brake, auto_brake_2, bus, bus_2>>
       ELSE LET r == Invoke(callback, Controller(callback.this),
                            Bus(callback.bus), event)
            IN  /\ r.bus.commands_published <= MaxPublished
                /\ StoreController(callback.this, r.ab)
                /\ StoreBus(callback.bus, r.bus)
                /\ thrown' = "none"

\* b.speed_update_callback(SpeedUpdate{ v })
Deliver_SpeedUpdate(b, ev) == Deliver(b.speed_update_callback, ev)

\* b.car_detected_callback(CarDetected{ d, v })
Deliver_CarDetected(b, ev) == Deliver(b.car_detected_callback, ev)

\* b.speed_limit_callback(SpeedLimitDetected{ l })
Deliver_SpeedLimitDetected(b, ev) == Deliver(b.speed_limit_callback, ev)

----------------------------------------------------------------------------
(* Inputs *)

\* arguments of set_collision_threshold_s
ThresholdInputs ==
    {NaN, Inf(FALSE), Inf(TRUE), ToDouble(-5), Half, ToDouble(1), ToDouble(10)}

\* SpeedUpdate::velocity_mps
VelocityInputs ==
    {NaN, Inf(FALSE), NegZero} \cup {ToDouble(i) : i \in {-5, 0, 30, 40, 100}}

\* CarDetected::distance_m and CarDetected::velocity_mps
DistanceInputs == {ToDouble(i) : i \in {-100, 0, 100}}

OtherVelocityInputs == {ToDouble(i) : i \in {0, 50}}

\* SpeedLimitDetected::speed_mps
LimitInputs == {0, 25, 35, 100, USHRT_MAX}

\* the values the tests of the file use
TestThresholds == {Half, ToDouble(2), ToDouble(10)}

TestVelocities == {ToDouble(i) : i \in {0, 30, 40, 50, 100}}

TestCars == {CarDetected(ToDouble(100), ToDouble(0)),
             CarDetected(ToDouble(1000), ToDouble(50))}

TestLimits == {25, 35, 100}

----------------------------------------------------------------------------
(* Specifications *)

\* MockServiceBus bus{}; AutoBrake auto_brake{ bus }; and a second bus,
\* MockServiceBus bus_2{}, with nothing constructed on it
Init ==
    LET c == AutoBrake("auto_brake", "bus", MockServiceBus)
    IN  /\ auto_brake = c.ab
        /\ bus = c.bus
        /\ auto_brake_2 = NoObject
        /\ bus_2 = MockServiceBus
        /\ ctor = [at |-> "not started", bus |-> "bus"]
        /\ thrown = "none"
        /\ trace = <<>>

\* auto_brake.set_collision_threshold_s(x), any x
SetThreshold ==
    \E x \in ThresholdInputs :
        /\ Call_set_collision_threshold_s("auto_brake", x)
        /\ trace' = <<OpSetThreshold(x)>>

\* bus.speed_update_callback(SpeedUpdate{ v }), any v
SpeedUpdateDelivered ==
    \E v \in VelocityInputs :
        /\ Deliver_SpeedUpdate(bus, SpeedUpdate(v))
        /\ trace' = <<OpSpeedUpdate(SpeedUpdate(v))>>

\* bus.car_detected_callback(CarDetected{ d, v }), any d and v
CarDetectedDelivered ==
    \E d \in DistanceInputs, v \in OtherVelocityInputs :
        /\ Deliver_CarDetected(bus, CarDetected(d, v))
        /\ trace' = <<OpCarDetected(CarDetected(d, v))>>

\* bus.speed_limit_callback(SpeedLimitDetected{ l }), any l
SpeedLimitDelivered ==
    \E l \in LimitInputs :
        /\ Deliver_SpeedLimitDetected(bus, SpeedLimitDetected(l))
        /\ trace' = <<OpSpeedLimit(SpeedLimitDetected(l))>>

\* any operation, any input, in any order; trace keeps the last operation
Next ==
    \/ SetThreshold
    \/ SpeedUpdateDelivered
    \/ CarDetectedDelivered
    \/ SpeedLimitDelivered

Spec == Init /\ [][Next]_vars

\* the operations of a test body, with the values the tests use; trace keeps
\* them all
TestSetThreshold ==
    \E x \in TestThresholds :
        /\ Len(trace) < MaxTrace
        /\ Call_set_collision_threshold_s("auto_brake", x)
        /\ trace' = Append(trace, OpSetThreshold(x))

TestSpeedUpdate ==
    \E v \in TestVelocities :
        /\ Len(trace) < MaxTrace
        /\ Deliver_SpeedUpdate(bus, SpeedUpdate(v))
        /\ trace' = Append(trace, OpSpeedUpdate(SpeedUpdate(v)))

TestCarDetected ==
    \E cd \in TestCars :
        /\ Len(trace) < MaxTrace
        /\ Deliver_CarDetected(bus, cd)
        /\ trace' = Append(trace, OpCarDetected(cd))

TestSpeedLimit ==
    \E l \in TestLimits :
        /\ Len(trace) < MaxTrace
        /\ Deliver_SpeedLimitDetected(bus, SpeedLimitDetected(l))
        /\ trace' = Append(trace, OpSpeedLimit(SpeedLimitDetected(l)))

\* a test body: at most MaxTrace operations on fresh objects
ScenarioNext ==
    \/ TestSetThreshold
    \/ TestSpeedUpdate
    \/ TestCarDetected
    \/ TestSpeedLimit

SpecScenario == Init /\ [][ScenarioNext]_vars

\* the names of the two MockServiceBus objects and of the two AutoBrake objects
BusRefs == {"bus", "bus_2"}

ControllerRefs == {"auto_brake", "auto_brake_2"}

\* a few of the values the tests use
SmallThresholds == {Half, ToDouble(10)}

SmallVelocities == {ToDouble(30), ToDouble(100)}

SmallCars == {CarDetected(ToDouble(100), ToDouble(0))}

SmallLimits == {25, 100}

OpConstruct(bus_ref) == [name |-> "AutoBrake", arg |-> bus_ref]

OpSubscribe(slot) == [name |-> "subscribe", arg |-> slot]

\* an operation with the object it is performed on
On(op, target) == [name |-> op.name, arg |-> op.arg, on |-> target]

\* AutoBrake auto_brake_2{ b }, b either bus: the member initializers
Construct ==
    \E bus_ref \in BusRefs :
        /\ ctor.at = "not started"
        /\ auto_brake_2' = AutoBrakeMembers
        /\ ctor' = [at |-> "subscribe SpeedUpdate", bus |-> bus_ref]
        /\ thrown' = "none"
        /\ UNCHANGED <<auto_brake, bus, bus_2>>
        /\ trace' = <<OpConstruct(bus_ref)>>

\* the first statement of the constructor's body
ConstructSubscribeSpeedUpdate ==
    /\ ctor.at = "subscribe SpeedUpdate"
    /\ StoreBus(ctor.bus, Ctor_subscribe_SpeedUpdate("auto_brake_2", ctor.bus,
                                                     Bus(ctor.bus)))
    /\ ctor' = [ctor EXCEPT !.at = "subscribe CarDetected"]
    /\ UNCHANGED <<auto_brake, auto_brake_2, thrown>>
    /\ trace' = <<OpSubscribe("speed_update_callback")>>

\* the second statement of the constructor's body
ConstructSubscribeCarDetected ==
    /\ ctor.at = "subscribe CarDetected"
    /\ StoreBus(ctor.bus, Ctor_subscribe_CarDetected("auto_brake_2", ctor.bus,
                                                     Bus(ctor.bus)))
    /\ ctor' = [ctor EXCEPT !.at = "subscribe SpeedLimitDetected"]
    /\ UNCHANGED <<auto_brake, auto_brake_2, thrown>>
    /\ trace' = <<OpSubscribe("car_detected_callback")>>

\* the third statement of the constructor's body, and its return
ConstructSubscribeSpeedLimit ==
    /\ ctor.at = "subscribe SpeedLimitDetected"
    /\ StoreBus(ctor.bus, Ctor_subscribe_SpeedLimit("auto_brake_2", ctor.bus,
                                                    Bus(ctor.bus)))
    /\ ctor' = [ctor EXCEPT !.at = "done"]
    /\ UNCHANGED <<auto_brake, auto_brake_2, thrown>>
    /\ trace' = <<OpSubscribe("speed_limit_callback")>>

\* this.set_collision_threshold_s(x) on either AutoBrake
SetThresholdOn ==
    \E this \in ControllerRefs, x \in SmallThresholds :
        /\ Call_set_collision_threshold_s(this, x)
        /\ trace' = <<On(OpSetThreshold(x), this)>>

\* b.speed_update_callback(SpeedUpdate{ v }) on either bus
SpeedUpdateDeliveredOn ==
    \E bus_ref \in BusRefs, v \in SmallVelocities :
        /\ Deliver_SpeedUpdate(Bus(bus_ref), SpeedUpdate(v))
        /\ trace' = <<On(OpSpeedUpdate(SpeedUpdate(v)), bus_ref)>>

\* b.car_detected_callback(CarDetected{ d, v }) on either bus
CarDetectedDeliveredOn ==
    \E bus_ref \in BusRefs, cd \in SmallCars :
        /\ Deliver_CarDetected(Bus(bus_ref), cd)
        /\ trace' = <<On(OpCarDetected(cd), bus_ref)>>

\* b.speed_limit_callback(SpeedLimitDetected{ l }) on either bus
SpeedLimitDeliveredOn ==
    \E bus_ref \in BusRefs, l \in SmallLimits :
        /\ Deliver_SpeedLimitDetected(Bus(bus_ref), SpeedLimitDetected(l))
        /\ trace' = <<On(OpSpeedLimit(SpeedLimitDetected(l)), bus_ref)>>

\* two buses and, once constructed on one of them, two AutoBrake objects;
\* trace keeps the last step
ObjectsNext ==
    \/ Construct
    \/ ConstructSubscribeSpeedUpdate
    \/ ConstructSubscribeCarDetected
    \/ ConstructSubscribeSpeedLimit
    \/ SetThresholdOn
    \/ SpeedUpdateDeliveredOn
    \/ CarDetectedDeliveredOn
    \/ SpeedLimitDeliveredOn

SpecObjects == Init /\ [][ObjectsNext]_vars

\* the last operation of a trace that is not empty
LastOp(t) == t[Len(t)]

\* a != b on doubles: true when either is a NaN
DNe(a, b) == ~DEq(a, b)

TypeOK ==
    /\ auto_brake.last_known_speed_limit \in 0..USHRT_MAX
    /\ bus.commands_published \in 0..MaxPublished
    /\ thrown \in {"none", "out_of_range", "bad_function_call"}

----------------------------------------------------------------------------
(* Claims *)

IsSetThreshold(o) == o.name = "set_collision_threshold_s"

IsSpeedUpdate(o) == o.name = "speed_update_callback"

IsCarDetected(o) == o.name = "car_detected_callback"

IsSpeedLimit(o) == o.name = "speed_limit_callback"

\* the condition under which the CarDetected lambda publishes
Imminent(time_to_collision_s, threshold) ==
    /\ DGt(time_to_collision_s, ToDouble(0))
    /\ DLe(time_to_collision_s, threshold)

\* C1: in every state reachable after construction, through any sequence of
\* set_collision_threshold_s calls and deliveries, collision_threshold_s >= 1.0.
\* The code lets a NaN through its check x < 1, after which this is false.
C1_ThresholdAtLeastOne ==
    DGe(auto_brake.collision_threshold_s, ToDouble(1))

\* C2: for every x < 1.0, in every reachable state, set_collision_threshold_s(x)
\* throws and leaves collision_threshold_s, speed_mps, last_known_speed_limit,
\* commands_published and last_command as they were before the call.
C2_RejectedSetChangesNothing ==
    [][LET o == LastOp(trace')
       IN  (IsSetThreshold(o) /\ DLt(o.arg, ToDouble(1)))
           => /\ thrown' = "out_of_range"
              /\ auto_brake' = auto_brake
              /\ bus'.commands_published = bus.commands_published
              /\ bus'.last_command = bus.last_command]_vars

\* a rejected set_collision_threshold_s(0.5) on a controller that has stored a
\* speed, a limit and a threshold of its own and whose bus holds a command
C2_Witness ==
    /\ trace # <<>>
    /\ IsSetThreshold(LastOp(trace))
    /\ LastOp(trace).arg = Half
    /\ thrown = "out_of_range"
    /\ auto_brake.collision_threshold_s = ToDouble(10)
    /\ auto_brake.speed_mps = ToDouble(30)
    /\ auto_brake.last_known_speed_limit = 25
    /\ bus.commands_published = 2
    /\ bus.last_command = BrakeCommand(Fin(FALSE, 10, 3))

\* C3: for every x >= 1.0, x = 1.0 included, set_collision_threshold_s(x) does
\* not throw and get_collision_threshold_s() then returns x; no other operation
\* changes the threshold, and every CarDetected delivery decides with the
\* threshold then stored.
C3_AcceptedSetIsStoredAndUsed ==
    [][LET o == LastOp(trace')
       IN  /\ (IsSetThreshold(o) /\ DGe(o.arg, ToDouble(1)))
              => /\ thrown' = "none"
                 /\ get_collision_threshold_s' = o.arg
           /\ ~IsSetThreshold(o)
              => get_collision_threshold_s' = get_collision_threshold_s
           /\ IsCarDetected(o)
              => ((bus'.commands_published = bus.commands_published + 1)
                   <=> Imminent(DDiv(o.arg.distance_m, get_speed_mps),
                                get_collision_threshold_s))]_vars

\* a CarDetected{100, _} at speed 100 after set_collision_threshold_s(1.0):
\* the time to collision 1.0 is within the threshold 1.0, and is published
C3_Witness ==
    /\ trace # <<>>
    /\ IsCarDetected(LastOp(trace))
    /\ LastOp(trace).arg.distance_m = ToDouble(100)
    /\ get_speed_mps = ToDouble(100)
    /\ get_collision_threshold_s = ToDouble(1)
    /\ bus.commands_published = 1
    /\ bus.last_command = BrakeCommand(ToDouble(1))

\* C4: right after construction on a fresh mock bus, speed_mps == 0,
\* collision_threshold_s == 5.0, last_known_speed_limit == 39 and
\* commands_published == 0.
C4_InitialState ==
    trace = <<>>
    => /\ DEq(get_speed_mps, ToDouble(0))
       /\ DEq(get_collision_threshold_s, ToDouble(5))
       /\ get_last_known_speed_limit = 39
       /\ bus.commands_published = 0

\* the state the constructor leaves: nothing performed yet, the handlers bound
C4_Witness ==
    /\ trace = <<>>
    /\ thrown = "none"
    /\ bus.speed_update_callback.lambda = SpeedUpdateHandler
    /\ bus.car_detected_callback.lambda = CarDetectedHandler
    /\ bus.speed_limit_callback.lambda = SpeedLimitHandler

\* C5: in any reachable state, SpeedUpdate{v} with v > last_known_speed_limit
\* publishes exactly one BrakeCommand, with time_to_collision_s == 0, and leaves
\* speed_mps as it was (SpeedLimitDetected{35} then SpeedUpdate{40}: one command
\* of time 0, speed_mps still the previous value).
C5_OverspeedBrakesAndIsNotStored ==
    [][LET o == LastOp(trace')
       IN  (/\ IsSpeedUpdate(o)
            /\ DGt(o.arg.velocity_mps, ToDouble(get_last_known_speed_limit)))
           => /\ bus'.commands_published = bus.commands_published + 1
              /\ DEq(bus'.last_command.time_to_collision_s, ToDouble(0))
              /\ get_speed_mps' = get_speed_mps]_vars

\* SpeedLimitDetected{35} then SpeedUpdate{40} on fresh objects
C5_Witness ==
    /\ trace # <<>>
    /\ LastOp(trace) = OpSpeedUpdate(SpeedUpdate(ToDouble(40)))
    /\ get_last_known_speed_limit = 35
    /\ get_speed_mps = ToDouble(0)
    /\ bus.commands_published = 1
    /\ bus.last_command = BrakeCommand(ToDouble(0))

\* C6: in any reachable state, SpeedUpdate{v} with v not greater than
\* last_known_speed_limit sets speed_mps to v and publishes nothing.
C6_SpeedWithinLimitIsStored ==
    [][LET o == LastOp(trace')
       IN  (/\ IsSpeedUpdate(o)
            /\ ~DGt(o.arg.velocity_mps, ToDouble(get_last_known_speed_limit)))
           => /\ get_speed_mps' = o.arg.velocity_mps
              /\ bus'.commands_published = bus.commands_published
              /\ bus'.last_command = bus.last_command]_vars

\* SpeedUpdate{100} at the limit 100, on a bus that already holds a command
C6_Witness ==
    /\ trace # <<>>
    /\ LastOp(trace) = OpSpeedUpdate(SpeedUpdate(ToDouble(100)))
    /\ get_last_known_speed_limit = 100
    /\ get_speed_mps = ToDouble(100)
    /\ bus.commands_published = 1

\* C7: in any reachable state with speed_mps != 0, CarDetected{distance_m, _}
\* publishes exactly one BrakeCommand, of time_to_collision_s
\* distance_m / speed_mps, if and only if
\* 0 < distance_m / speed_mps <= collision_threshold_s; otherwise nothing.
C7_CarDetectedPublishesIffImminent ==
    [][LET o   == LastOp(trace')
           ttc == DDiv(o.arg.distance_m, get_speed_mps)
       IN  (IsCarDetected(o) /\ DNe(get_speed_mps, ToDouble(0)))
           => IF Imminent(ttc, get_collision_threshold_s)
              THEN /\ bus'.commands_published = bus.commands_published + 1
                   /\ bus'.last_command = BrakeCommand(ttc)
              ELSE /\ bus'.commands_published = bus.commands_published
                   /\ bus'.last_command = bus.last_command]_vars

\* CarDetected{100, _} at speed 40 under the initial threshold 5: 2.5 published
C7_Witness ==
    /\ trace # <<>>
    /\ IsCarDetected(LastOp(trace))
    /\ LastOp(trace).arg.distance_m = ToDouble(100)
    /\ get_speed_mps = ToDouble(40)
    /\ get_collision_threshold_s = ToDouble(5)
    /\ bus.commands_published = 2
    /\ bus.last_command = BrakeCommand(Fin(FALSE, 5, 2))

\* C8: in any reachable state, SpeedLimitDetected{L} sets
\* last_known_speed_limit to L and publishes exactly one BrakeCommand, of time
\* 0, if and only if speed_mps > L, the limit just stored (SpeedUpdate{30} on a
\* fresh controller then SpeedLimitDetected{25}: exactly one BrakeCommand{0}).
C8_SpeedLimitStoredThenCompared ==
    [][LET o == LastOp(trace')
       IN  IsSpeedLimit(o)
           => /\ get_last_known_speed_limit' = o.arg.speed_mps
              /\ IF DGt(get_speed_mps, ToDouble(o.arg.speed_mps))
                 THEN /\ bus'.commands_published = bus.commands_published + 1
                      /\ DEq(bus'.last_command.time_to_collision_s, ToDouble(0))
                 ELSE /\ bus'.commands_published = bus.commands_published
                      /\ bus'.last_command = bus.last_command]_vars

\* SpeedUpdate{30} on fresh objects, then SpeedLimitDetected{25}
C8_Witness ==
    /\ trace # <<>>
    /\ LastOp(trace) = OpSpeedLimit(SpeedLimitDetected(25))
    /\ get_speed_mps = ToDouble(30)
    /\ get_last_known_speed_limit = 25
    /\ get_collision_threshold_s = ToDouble(5)
    /\ bus.commands_published = 1
    /\ bus.last_command = BrakeCommand(ToDouble(0))

\* the operations of the tests, written as the tests write them
TSet(i) == OpSetThreshold(ToDouble(i))

TSpeed(i) == OpSpeedUpdate(SpeedUpdate(ToDouble(i)))

TCar(d, v) == OpCarDetected(CarDetected(ToDouble(d), ToDouble(v)))

TLimit(l) == OpSpeedLimit(SpeedLimitDetected(l))

C12_StoppedCarDetectedDoesNothing ==
    [][LET o == LastOp(trace')
       IN  (IsCarDetected(o) /\ DEq(get_speed_mps, ToDouble(0)))
           => /\ thrown' = "none"
              /\ bus'.commands_published = bus.commands_published
              /\ bus'.last_command = bus.last_command
              /\ auto_brake' = auto_brake]_vars

\* a delivery of the SpeedLimitDetected{L} that the operation before it
\* delivered, at a speed_mps above L
RepeatedLimitAboveSpeed(o) ==
    /\ trace # <<>>
    /\ IsSpeedLimit(o)
    /\ LastOp(trace) = o
    /\ DGt(get_speed_mps, ToDouble(o.arg.speed_mps))

\* C13 as stated: when the same SpeedLimitDetected{L} is delivered repeatedly,
\* nothing in between, and speed_mps exceeds L, last_known_speed_limit stays L
\* and only the first of those deliveries publishes a BrakeCommand.
C13_RepeatedLimitBrakesOnce ==
    [][LET o == LastOp(trace')
       IN  RepeatedLimitAboveSpeed(o)
           => /\ get_last_known_speed_limit' = o.arg.speed_mps
              /\ bus'.commands_published = bus.commands_published]_vars

\* C13 as amended: when the same SpeedLimitDetected{L} is delivered repeatedly,
\* nothing in between, and speed_mps exceeds L, last_known_speed_limit stays L
\* and every one of those deliveries publishes one BrakeCommand, of time 0.
C13_RepeatedLimitBrakesEachTime ==
    [][LET o == LastOp(trace')
       IN  RepeatedLimitAboveSpeed(o)
           => /\ get_last_known_speed_limit = o.arg.speed_mps
              /\ get_last_known_speed_limit' = o.arg.speed_mps
              /\ bus'.commands_published = bus.commands_published + 1
              /\ DEq(bus'.last_command.time_to_collision_s, ToDouble(0))]_vars

\* SpeedUpdate{30}, then SpeedLimitDetected{25} twice: two commands
C13_Witness ==
    /\ trace = <<TSpeed(30), TLimit(25), TLimit(25)>>
    /\ get_speed_mps = ToDouble(30)
    /\ get_last_known_speed_limit = 25
    /\ bus.commands_published = 2
    /\ bus.last_command = BrakeCommand(ToDouble(0))

\* the bus as it is, but with nothing published on it yet
Unpublished(b) ==
    [b EXCEPT !.commands_published = 0, !.last_command = BrakeCommand(ToDouble(0))]

\* what a run r of a handler on the bus b did: the controller it leaves and the
\* commands it published
Outcome(r, b) ==
    [ab        |-> r.ab,
     published |-> r.bus.commands_published - b.commands_published,
     commands  |-> IF r.bus.commands_published = b.commands_published
                   THEN {}
                   ELSE {r.bus.last_command}]

\* n deliveries of the same SpeedUpdate, one after the other
RECURSIVE RepeatSpeedUpdate(_, _, _, _)
RepeatSpeedUpdate(n, ab, b, update) ==
    IF n = 0
    THEN [ab |-> ab, bus |-> b]
    ELSE LET r == OnSpeedUpdate(ab, b, update)
         IN  RepeatSpeedUpdate(n - 1, r.ab, r.bus, update)

\* a trace of n operations, all of them o
Copies(n, o) == [i \in 1..n |-> o]

\* C14: brake emission is not latched.  In every reachable state, what the
\* delivery of any event does (the controller it leaves, whether it publishes,
\* the command) is the same on the bus as it is and on a bus with nothing
\* published yet; n consecutive SpeedUpdate{v} with v > last_known_speed_limit
\* publish exactly n commands, each of time 0.
C14_EmissionIsNotLatched ==
    /\ \A v \in VelocityInputs :
           Outcome(OnSpeedUpdate(auto_brake, bus, SpeedUpdate(v)), bus)
           = Outcome(OnSpeedUpdate(auto_brake, Unpublished(bus), SpeedUpdate(v)),
                     Unpublished(bus))
    /\ \A d \in DistanceInputs, v \in OtherVelocityInputs :
           Outcome(OnCarDetected(auto_brake, bus, CarDetected(d, v)), bus)
           = Outcome(OnCarDetected(auto_brake, Unpublished(bus), CarDetected(d, v)),
                     Unpublished(bus))
    /\ \A l \in LimitInputs :
           Outcome(OnSpeedLimitDetected(auto_brake, bus, SpeedLimitDetected(l)), bus)
           = Outcome(OnSpeedLimitDetected(auto_brake, Unpublished(bus),
                                          SpeedLimitDetected(l)),
                     Unpublished(bus))
    /\ \A v \in VelocityInputs, n \in 1..(MaxPublished + 1) :
           DGt(v, ToDouble(get_last_known_speed_limit))
           => LET r == RepeatSpeedUpdate(n, auto_brake, bus, SpeedUpdate(v))
              IN  /\ r.bus.commands_published = bus.commands_published + n
                  /\ r.bus.last_command = BrakeCommand(ToDouble(0))
                  /\ r.ab = auto_brake
    /\ \A v \in {40, 50, 100}, n \in 1..MaxTrace :
           trace = Copies(n, TSpeed(v))
           => /\ bus.commands_published = n
              /\ bus.last_command = BrakeCommand(ToDouble(0))

\* SpeedUpdate{100} twice on fresh objects (limit 39): two commands
C14_Witness ==
    /\ trace = Copies(2, TSpeed(100))
    /\ get_last_known_speed_limit = 39
    /\ bus.commands_published = 2
    /\ bus.last_command = BrakeCommand(ToDouble(0))
    /\ get_speed_mps = ToDouble(0)

\* C15: after a SpeedUpdate, CarDetected or SpeedLimitDetected delivery, with
\* any field values and in any reachable controller state, no exception is in
\* flight; an operation that ends in an exception is a
\* set_collision_threshold_s whose argument is below 1.
C15_OnlyTheSetterFails ==
    trace # <<>>
    => LET o == LastOp(trace)
       IN  /\ (IsSpeedUpdate(o) \/ IsCarDetected(o) \/ IsSpeedLimit(o))
              => thrown = "none"
           /\ thrown # "none"
              => /\ IsSetThreshold(o)
                 /\ DLt(o.arg, ToDouble(1))
                 /\ thrown = "out_of_range"

\* CarDetected{0, 0} at speed_mps 0, the quotient 0/0, after a command was
\* published: the delivery returns normally and publishes nothing more
C15_Witness ==
    /\ trace = <<OpCarDetected(CarDetected(ToDouble(0), ToDouble(0)))>>
    /\ DEq(get_speed_mps, ToDouble(0))
    /\ IsNaN(DDiv(ToDouble(0), get_speed_mps))
    /\ thrown = "none"
    /\ bus.commands_published = 1

\* the three callback members of a MockServiceBus
SlotNames == {"speed_update_callback", "car_detected_callback", "speed_limit_callback"}

Slot(b, slot) ==
    CASE slot = "speed_update_callback" -> b.speed_update_callback
      [] slot = "car_detected_callback" -> b.car_detected_callback
      [] slot = "speed_limit_callback"  -> b.speed_limit_callback

\* the slots, on either bus, that hold a lambda of the AutoBrake this
Registered(this) ==
    {p \in BusRefs \X SlotNames :
        /\ Slot(Bus(p[1]), p[2]) # Empty
        /\ Slot(Bus(p[1]), p[2]).this = this}

\* the bus bus_ref holds the three lambdas of this, each bound to this and to
\* bus_ref, and this has no other registration
ConstructedOn(this, bus_ref) ==
    /\ Bus(bus_ref).speed_update_callback = Closure(SpeedUpdateHandler, this, bus_ref)
    /\ Bus(bus_ref).car_detected_callback = Closure(CarDetectedHandler, this, bus_ref)
    /\ Bus(bus_ref).speed_limit_callback = Closure(SpeedLimitHandler, this, bus_ref)
    /\ \A slot \in SlotNames : Slot(Bus(bus_ref), slot) # Empty
    /\ Registered(this) = {bus_ref} \X SlotNames

\* a step of the constructor of auto_brake_2
IsConstructionStep(o) == o.name \in {"AutoBrake", "subscribe"}

\* C16, the states: the registrations a finished constructor leaves
C16_AfterConstruction ==
    /\ trace = <<>>
       => /\ bus.commands_published = 0
          /\ bus.last_command = BrakeCommand(ToDouble(0))
    /\ ctor.at = "not started"
       => /\ ConstructedOn("auto_brake", "bus")
          /\ \A slot \in SlotNames : Slot(bus_2, slot) = Empty
    /\ ctor.at = "done"
       => /\ ConstructedOn("auto_brake_2", ctor.bus)
          /\ ctor.bus = "bus_2" => ConstructedOn("auto_brake", "bus")

\* C16, the steps: a construction step publishes nothing, and each subscribe
\* adds one registration of auto_brake_2
C16_DuringConstruction ==
    LET o == LastOp(trace')
    IN  IsConstructionStep(o)
        => /\ bus'.commands_published = bus.commands_published
           /\ bus_2'.commands_published = bus_2.commands_published
           /\ bus'.last_command = bus.last_command
           /\ bus_2'.last_command = bus_2.last_command
           /\ auto_brake' = auto_brake
           /\ Cardinality(Registered("auto_brake_2")')
              = IF o.name = "subscribe"
                THEN Cardinality(Registered("auto_brake_2")) + 1
                ELSE 0

\* C16: constructing an AutoBrake on a bus registers exactly three handlers,
\* one per event type, each bound to that AutoBrake and that bus (the first
\* AutoBrake on bus in the initial state, the second on the bus it is given
\* once its constructor returns), so that no slot of that bus is empty; no
\* step of a construction publishes anything.
C16_ConstructionRegistersThreeHandlers ==
    []C16_AfterConstruction /\ [][C16_DuringConstruction]_vars

\* auto_brake_2 just constructed on bus_2, after auto_brake published on bus
C16_Witness ==
    /\ trace = <<OpSubscribe("speed_limit_callback")>>
    /\ ctor = [at |-> "done", bus |-> "bus_2"]
    /\ auto_brake_2 = AutoBrakeMembers
    /\ bus_2.speed_limit_callback = Closure(SpeedLimitHandler, "auto_brake_2", "bus_2")
    /\ bus_2.commands_published = 0
    /\ bus.commands_published = 1

\* C17: a CarDetected delivery does what the CarDetected lambda does, in the
\* same state, with any other velocity_mps in the event (a NaN, an infinity
\* and -0.0 among them): the same publication, the same time_to_collision_s,
\* the same resulting controller and bus.
C17_CarVelocityIsIgnored ==
    [][LET o == LastOp(trace')
       IN  IsCarDetected(o)
           => \A v \in VelocityInputs \cup OtherVelocityInputs :
                  LET r == OnCarDetected(auto_brake, bus,
                                         CarDetected(o.arg.distance_m, v))
                  IN  /\ auto_brake' = r.ab
                      /\ bus' = r.bus
                      /\ thrown' = "none"]_vars

\* CarDetected{100, 50} at speed_mps 40: a command of 100/40 = 2.5 s, what
\* CarDetected{100, 0} publishes too
C17_Witness ==
    /\ trace = <<OpCarDetected(CarDetected(ToDouble(100), ToDouble(50)))>>
    /\ get_speed_mps = ToDouble(40)
    /\ bus.commands_published = 1
    /\ bus.last_command = BrakeCommand(Fin(FALSE, 5, 2))
    /\ OnCarDetected(auto_brake, Unpublished(bus),
                     CarDetected(ToDouble(100), ToDouble(0))).bus.last_command
       = bus.last_command

\* one run of the lambda that the operation o delivers to
HandlerRun(o) ==
    CASE IsSpeedUpdate(o) -> OnSpeedUpdate(auto_brake, bus, o.arg)
      [] IsCarDetected(o) -> OnCarDetected(auto_brake, bus, o.arg)
      [] IsSpeedLimit(o)  -> OnSpeedLimitDetected(auto_brake, bus, o.arg)

\* C18: when a callback invoked on the bus has returned, it has completed (no
\* exception), the controller and the bus are exactly what one run of that
\* event's lambda leaves, at most one command was published by it, a delivery
\* that published nothing left last_command alone, and the three callback slots
\* are what they were (publish calls no handler and subscribes nothing).
C18_DeliveryIsOneCompleteHandlerRun ==
    [][LET o == LastOp(trace')
       IN  (IsSpeedUpdate(o) \/ IsCarDetected(o) \/ IsSpeedLimit(o))
           => /\ thrown' = "none"
              /\ auto_brake' = HandlerRun(o).ab
              /\ bus' = HandlerRun(o).bus
              /\ bus'.commands_published \in
                     {bus.commands_published, bus.commands_published + 1}
              /\ bus'.commands_published = bus.commands_published
                 => bus'.last_command = bus.last_command
              /\ \A slot \in SlotNames : Slot(bus', slot) = Slot(bus, slot)]_vars

\* SpeedLimitDetected{0} at speed_mps 30, one command published before: the
\* limit is stored and the second command is there when the callback returns
C18_Witness ==
    /\ trace = <<OpSpeedLimit(SpeedLimitDetected(0))>>
    /\ get_speed_mps = ToDouble(30)
    /\ get_last_known_speed_limit = 0
    /\ thrown = "none"
    /\ bus.commands_published = 2
    /\ bus.last_command = BrakeCommand(ToDouble(0))

\* the callback member that the delivery o calls
SlotOf(o) ==
    CASE IsSpeedUpdate(o) -> "speed_update_callback"
      [] IsCarDetected(o) -> "car_detected_callback"
      [] IsSpeedLimit(o)  -> "speed_limit_callback"

\* the lambda the constructor subscribes into a slot
LambdaOf(slot) ==
    CASE slot = "speed_update_callback" -> SpeedUpdateHandler
      [] slot = "car_detected_callback" -> CarDetectedHandler
      [] slot = "speed_limit_callback"  -> SpeedLimitHandler

\* a subscribe step of the constructor of auto_brake_2, from bus object
\* before to bus object after: the slot holds the new lambda whatever it held,
\* the other two slots and the record of publications are untouched
SubscribeReplacesOneSlot(slot, bus_ref, before, after) ==
    /\ Slot(after, slot) = Closure(LambdaOf(slot), "auto_brake_2", bus_ref)
    /\ Slot(after, slot) # Slot(before, slot)
    /\ \A other \in SlotNames \ {slot} : Slot(after, other) = Slot(before, other)
    /\ after.commands_published = before.commands_published
    /\ after.last_command = before.last_command

\* a delivery step to the callback in a slot: nothing runs if it is empty,
\* else the one lambda it holds runs, on the objects it captured, and the other
\* AutoBrake is not touched
DeliveryRunsTheSlotOnly(o, callback) ==
    IF callback = Empty
    THEN /\ thrown' = "bad_function_call"
         /\ UNCHANGED <<auto_brake, auto_brake_2, bus, bus_2>>
    ELSE LET r == Invoke(callback, Controller(callback.this), Bus(callback.bus), o.arg)
         IN  /\ callback.lambda = LambdaOf(SlotOf(o))
             /\ callback.this = "auto_brake" => auto_brake_2' = auto_brake_2
             /\ callback.this = "auto_brake_2" => auto_brake' = auto_brake
             /\ callback.bus = "bus" => bus_2' = bus_2
             /\ callback.bus = "bus_2" => bus' = bus
             /\ IF callback.this = "auto_brake"
                THEN auto_brake' = r.ab
                ELSE auto_brake_2' = r.ab
             /\ (bus'.commands_published + bus_2'.commands_published)
                - (bus.commands_published + bus_2.commands_published) \in {0, 1}

\* C19: a MockServiceBus has one slot per event type.  Each subscribe of a
\* later constructor on a bus replaces what the slot of that type held (a
\* lambda of the first AutoBrake or nothing) and leaves the two other slots, and
\* the other bus, as they were; a delivered event runs the one callback its
\* slot holds at that time and no other handler.
C19_OneSlotPerEventType ==
    [][LET o == LastOp(trace')
       IN  /\ o.name = "subscribe"
              => /\ ctor.bus = "bus"
                    => /\ SubscribeReplacesOneSlot(o.arg, "bus", bus, bus')
                       /\ bus_2' = bus_2
                 /\ ctor.bus = "bus_2"
                    => /\ SubscribeReplacesOneSlot(o.arg, "bus_2", bus_2, bus_2')
                       /\ bus' = bus
           /\ (IsSpeedUpdate(o) \/ IsCarDetected(o) \/ IsSpeedLimit(o))
              => DeliveryRunsTheSlotOnly(o, Slot(Bus(o.on), SlotOf(o)))]_vars

\* auto_brake_2 was constructed on bus, over the lambdas of auto_brake; then
\* SpeedUpdate{30} on bus reached auto_brake_2 only
C19_Witness ==
    /\ trace = <<On(OpSpeedUpdate(SpeedUpdate(ToDouble(30))), "bus")>>
    /\ ctor = [at |-> "done", bus |-> "bus"]
    /\ bus.speed_update_callback = Closure(SpeedUpdateHandler, "auto_brake_2", "bus")
    /\ Registered("auto_brake") = {}
    /\ auto_brake_2.speed_mps = ToDouble(30)
    /\ auto_brake.speed_mps = ToDouble(0)

\* the commands that the operations ops publish, in order, when performed from
\* the controller fields ab, after the ones in log: the brake policy of the
\* three handlers, the bus left out
RECURSIVE Publications(_, _, _)
Publications(ops, ab, log) ==
    IF ops = <<>>
    THEN log
    ELSE LET o    == Head(ops)
             rest == Tail(ops)
         IN  CASE IsSetThreshold(o) ->
                     Publications(rest, set_collision_threshold_s(ab, o.arg).ab, log)
               [] IsSpeedUpdate(o) ->
                     IF DGt(o.arg.velocity_mps, ToDouble(ab.last_known_speed_limit))
                     THEN Publications(rest, ab, Append(log, BrakeCommand(ToDouble(0))))
                     ELSE Publications(rest,
                                       [ab EXCEPT !.speed_mps = o.arg.velocity_mps],
                                       log)
               [] IsCarDetected(o) ->
                     IF Imminent(DDiv(o.arg.distance_m, ab.speed_mps),
                                 ab.collision_threshold_s)
                     THEN Publications(rest, ab,
                              Append(log, BrakeCommand(DDiv(o.arg.distance_m,
                                                            ab.speed_mps))))
                     ELSE Publications(rest, ab, log)
               [] IsSpeedLimit(o) ->
                     LET stored == [ab EXCEPT !.last_known_speed_limit = o.arg.speed_mps]
                     IN  IF DGt(ab.speed_mps, ToDouble(o.arg.speed_mps))
                         THEN Publications(rest, stored,
                                           Append(log, BrakeCommand(ToDouble(0))))
                         ELSE Publications(rest, stored, log)

\* C20, the state after any sequence of operations: commands_published is the
\* number of commands published so far and last_command is the most recent of
\* them, or the command of time 0 when there is none
C20_CountAndLastCommand ==
    LET log == Publications(trace, AutoBrakeMembers, <<>>)
    IN  /\ bus.commands_published = Len(log)
        /\ bus.last_command = IF log = <<>>
                              THEN BrakeCommand(ToDouble(0))
                              ELSE log[Len(log)]

\* C20, one operation: commands_published never decreases, grows by exactly 1
\* when the operation publishes, and last_command changes only then
C20_PublishStep ==
    /\ bus'.commands_published \in {bus.commands_published, bus.commands_published + 1}
    /\ bus'.commands_published = bus.commands_published
       => bus'.last_command = bus.last_command
    /\ bus'.commands_published = bus.commands_published + 1
       => bus' = publish(bus, bus'.last_command)

\* C20: each publish on the mock bus increases commands_published by exactly 1
\* and sets last_command to the published command; after any sequence of
\* operations commands_published equals the number of publications so far,
\* has never decreased, and last_command is the most recent publication (the
\* command of time 0 if there is none).
C20_PublishCountsAndRecords ==
    []C20_CountAndLastCommand /\ [][C20_PublishStep]_vars

\* two publications, of 0 s and then of 100/30 s, among four operations
C20_Witness ==
    /\ trace = <<TSpeed(100), TLimit(100), TSpeed(30), TCar(100, 0)>>
    /\ bus.commands_published = 2
    /\ bus.last_command = BrakeCommand(Fin(FALSE, 10, 3))

\* C21: a SpeedUpdate{v} whose v equals last_known_speed_limit is not an
\* overspeed: the delivery stores v in speed_mps and publishes nothing
\* (after SpeedLimitDetected{100}, SpeedUpdate{100} leaves speed_mps == 100
\* and the commands as they were).
C21_SpeedAtLimitIsStored ==
    [][LET o == LastOp(trace')
       IN  (IsSpeedUpdate(o)
            /\ DEq(o.arg.velocity_mps, ToDouble(get_last_known_speed_limit)))
           => /\ get_speed_mps' = o.arg.velocity_mps
              /\ bus'.commands_published = bus.commands_published
              /\ bus'.last_command = bus.last_command
              /\ get_last_known_speed_limit' = get_last_known_speed_limit]_vars

\* SpeedUpdate{100} under limit 100, nothing published so far
C21_Witness ==
    /\ trace = <<OpSpeedUpdate(SpeedUpdate(ToDouble(100)))>>
    /\ get_last_known_speed_limit = 100
    /\ get_speed_mps = ToDouble(100)
    /\ bus.commands_published = 0

\* C22: the collision threshold is an inclusive upper bound.  A CarDetected
\* whose distance_m / speed_mps equals collision_threshold_s publishes one
\* BrakeCommand carrying that quotient; one whose quotient is greater than
\* collision_threshold_s publishes nothing.
C22_ThresholdIsInclusive ==
    [][LET o == LastOp(trace')
           time_to_collision_s == DDiv(o.arg.distance_m, get_speed_mps)
       IN  IsCarDetected(o)
           => /\ DEq(time_to_collision_s, get_collision_threshold_s)
                 => /\ bus'.commands_published = bus.commands_published + 1
                    /\ bus'.last_command = BrakeCommand(time_to_collision_s)
              /\ DGt(time_to_collision_s, get_collision_threshold_s)
                 => /\ bus'.commands_published = bus.commands_published
                    /\ bus'.last_command = bus.last_command]_vars

\* CarDetected{100, 50} at speed_mps 100 with threshold 1: 100/100 == 1, the
\* second command published
C22_Witness ==
    /\ trace = <<OpCarDetected(CarDetected(ToDouble(100), ToDouble(50)))>>
    /\ get_speed_mps = ToDouble(100)
    /\ get_collision_threshold_s = ToDouble(1)
    /\ DEq(DDiv(ToDouble(100), get_speed_mps), get_collision_threshold_s)
    /\ bus.commands_published = 2
    /\ bus.last_command = BrakeCommand(ToDouble(1))

\* C23: a CarDetected delivery modifies no controller field: speed_mps,
\* last_known_speed_limit and collision_threshold_s are after the delivery
\* what they were before it, whether or not it published a BrakeCommand.
C23_CarDetectedLeavesTheController ==
    [][LET o == LastOp(trace')
       IN  IsCarDetected(o)
           => /\ get_speed_mps' = get_speed_mps
              /\ get_last_known_speed_limit' = get_last_known_speed_limit
              /\ get_collision_threshold_s' = get_collision_threshold_s]_vars

\* CarDetected{100, 50} at speed_mps 30 with threshold 10 published 100/30 and
\* the fields are still 30, 39 and 10
C23_Witness ==
    /\ trace = <<OpCarDetected(CarDetected(ToDouble(100), ToDouble(50)))>>
    /\ get_speed_mps = ToDouble(30)
    /\ get_last_known_speed_limit = 39
    /\ get_collision_threshold_s = ToDouble(10)
    /\ bus.commands_published = 1
    /\ bus.last_command = BrakeCommand(Fin(FALSE, 10, 3))

\* C24: each mutating operation touches only its own field.  A SpeedUpdate
\* delivery leaves last_known_speed_limit and collision_threshold_s, a
\* SpeedLimitDetected delivery leaves speed_mps and collision_threshold_s, and
\* set_collision_threshold_s leaves speed_mps and last_known_speed_limit and
\* publishes nothing.
C24_EachOperationWritesItsOwnField ==
    [][LET o == LastOp(trace')
       IN  /\ IsSpeedUpdate(o)
              => /\ get_last_known_speed_limit' = get_last_known_speed_limit
                 /\ get_collision_threshold_s' = get_collision_threshold_s
           /\ IsSpeedLimit(o)
              => /\ get_speed_mps' = get_speed_mps
                 /\ get_collision_threshold_s' = get_collision_threshold_s
           /\ IsSetThreshold(o)
              => /\ get_speed_mps' = get_speed_mps
                 /\ get_last_known_speed_limit' = get_last_known_speed_limit
                 /\ bus' = bus]_vars

\* SpeedLimitDetected{25} at speed_mps 30 with threshold 10: the limit is
\* stored, a command goes out, speed_mps and the threshold stay
C24_Witness ==
    /\ trace = <<OpSpeedLimit(SpeedLimitDetected(25))>>
    /\ get_speed_mps = ToDouble(30)
    /\ get_last_known_speed_limit = 25
    /\ get_collision_threshold_s = ToDouble(10)
    /\ bus.commands_published = 2

\* C25, the states: the command the bus holds is never negative
C25_LastCommandIsNotNegative ==
    DGe(bus.last_command.time_to_collision_s, ToDouble(0))

\* C25, the steps: a command published by a SpeedUpdate or SpeedLimitDetected
\* delivery is exactly 0; one published by a CarDetected delivery is above 0
\* and at most the collision_threshold_s of that moment
C25_PublishedCommandIsInRange ==
    LET o == LastOp(trace')
        time_to_collision_s == bus'.last_command.time_to_collision_s
    IN  bus'.commands_published # bus.commands_published
        => /\ IsSpeedUpdate(o) \/ IsCarDetected(o) \/ IsSpeedLimit(o)
           /\ DGe(time_to_collision_s, ToDouble(0))
           /\ (IsSpeedUpdate(o) \/ IsSpeedLimit(o))
              => time_to_collision_s = ToDouble(0)
           /\ IsCarDetected(o)
              => /\ DGt(time_to_collision_s, ToDouble(0))
                 /\ DLe(time_to_collision_s, get_collision_threshold_s)

\* C25: every BrakeCommand ever published has time_to_collision_s >= 0; it is
\* exactly 0 when a SpeedUpdate or SpeedLimitDetected delivery published it, and
\* 0 < time_to_collision_s <= collision_threshold_s (the threshold in force at
\* that moment) when a CarDetected delivery did; no negative and no
\* above-threshold command is published.
C25_CommandsAreInRange ==
    []C25_LastCommandIsNotNegative /\ [][C25_PublishedCommandIsInRange]_vars

\* CarDetected{100, 0} at speed_mps 40 with threshold 10: 2.5 s, in (0, 10]
C25_Witness ==
    /\ trace = <<OpCarDetected(CarDetected(ToDouble(100), ToDouble(0)))>>
    /\ get_speed_mps = ToDouble(40)
    /\ get_collision_threshold_s = ToDouble(10)
    /\ bus.commands_published = 2
    /\ bus.last_command = BrakeCommand(Fin(FALSE, 5, 2))

\* the largest speed limit in force at any time while the operations ops were
\* performed, m being the largest before them
RECURSIVE LargestLimit(_, _)
LargestLimit(ops, m) ==
    IF ops = <<>>
    THEN m
    ELSE LET o == Head(ops)
         IN  IF IsSpeedLimit(o) /\ o.arg.speed_mps > m
             THEN LargestLimit(Tail(ops), o.arg.speed_mps)
             ELSE LargestLimit(Tail(ops), m)

\* speed_mps > last_known_speed_limit, as the handlers compute it
Overspeed(ab) == DGt(ab.speed_mps, ToDouble(ab.last_known_speed_limit))

\* C26, the states: speed_mps is not greater than the largest limit that has
\* been in force, the initial 39 and every limit delivered so far
C26_SpeedWithinLargestLimit ==
    ~DGt(get_speed_mps, ToDouble(LargestLimit(trace, InitialSpeedLimit)))

\* C26, the steps: speed_mps > last_known_speed_limit becomes true only by a
\* SpeedLimitDetected delivery whose limit is below the stored speed and below
\* the limit it replaces
C26_OverspeedOnlyByLoweredLimit ==
    LET o == LastOp(trace')
    IN  (~Overspeed(auto_brake) /\ Overspeed(auto_brake'))
        => /\ IsSpeedLimit(o)
           /\ o.arg.speed_mps < get_last_known_speed_limit
           /\ DGt(get_speed_mps, ToDouble(o.arg.speed_mps))
           /\ get_speed_mps' = get_speed_mps

\* C26: in every reachable state speed_mps is not greater than the largest
\* speed limit that has ever been in force (39 at first, then every limit
\* delivered), a reading being stored only when it does not exceed the limit of
\* that time; speed_mps > last_known_speed_limit becomes true only through a
\* SpeedLimitDetected delivery that lowers the limit below the stored speed,
\* never through a SpeedUpdate.
C26_StoredSpeedNeverExceededItsLimit ==
    []C26_SpeedWithinLargestLimit /\ [][C26_OverspeedOnlyByLoweredLimit]_vars

\* limit raised to 100, 100 stored, limit lowered to 25: speed_mps 100 is
\* above the limit in force and equal to the largest one
C26_Witness ==
    /\ trace = <<TLimit(100), TSpeed(100), TLimit(25)>>
    /\ get_speed_mps = ToDouble(100)
    /\ get_last_known_speed_limit = 25
    /\ LargestLimit(trace, InitialSpeedLimit) = 100
    /\ Overspeed(auto_brake)
    /\ bus.commands_published = 1

\* SpeedUpdate{v} delivered and then SpeedLimitDetected{l}, from ab and b
UpdateThenLimit(ab, b, v, l) ==
    LET first == OnSpeedUpdate(ab, b, SpeedUpdate(v))
    IN  OnSpeedLimitDetected(first.ab, first.bus, SpeedLimitDetected(l))

\* SpeedLimitDetected{l} delivered and then SpeedUpdate{v}, from ab and b
LimitThenUpdate(ab, b, v, l) ==
    LET first == OnSpeedLimitDetected(ab, b, SpeedLimitDetected(l))
    IN  OnSpeedUpdate(first.ab, first.bus, SpeedUpdate(v))

\* C27: SpeedUpdate and SpeedLimitDetected do not commute.  In every reachable
\* state, of speed_mps s0 and limit K, and for every v and L with
\* s0 <= L < v <= K, the two deliveries publish exactly one BrakeCommand{0} and
\* end with limit L in either order, but SpeedUpdate{v} first ends with
\* speed_mps == v and SpeedLimitDetected{L} first ends with speed_mps == s0;
\* the runs from a fresh controller under limit 100 end that way.
C27_UpdateAndLimitDoNotCommute ==
    /\ \A v \in VelocityInputs \cup TestVelocities, l \in LimitInputs \cup TestLimits :
           (/\ DLe(get_speed_mps, ToDouble(l))
            /\ DLt(ToDouble(l), v)
            /\ DLe(v, ToDouble(get_last_known_speed_limit)))
           => LET ul == UpdateThenLimit(auto_brake, Unpublished(bus), v, l)
                  lu == LimitThenUpdate(auto_brake, Unpublished(bus), v, l)
              IN  /\ ul.bus.commands_published = 1
                  /\ lu.bus.commands_published = 1
                  /\ ul.bus.last_command = BrakeCommand(ToDouble(0))
                  /\ lu.bus.last_command = BrakeCommand(ToDouble(0))
                  /\ ul.ab.last_known_speed_limit = l
                  /\ lu.ab.last_known_speed_limit = l
                  /\ ul.ab.speed_mps = v
                  /\ lu.ab.speed_mps = get_speed_mps
                  /\ ul.ab # lu.ab
    /\ \A v \in {30, 40, 50, 100}, l \in TestLimits :
           l < v
           => /\ trace = <<TLimit(100), TSpeed(v), TLimit(l)>>
                 => /\ get_speed_mps = ToDouble(v)
                    /\ get_last_known_speed_limit = l
                    /\ bus.commands_published = 1
                    /\ bus.last_command = BrakeCommand(ToDouble(0))
              /\ trace = <<TLimit(100), TLimit(l), TSpeed(v)>>
                 => /\ get_speed_mps = ToDouble(0)
                    /\ get_last_known_speed_limit = l
                    /\ bus.commands_published = 1
                    /\ bus.last_command = BrakeCommand(ToDouble(0))

\* under limit 100, SpeedLimitDetected{35} and then SpeedUpdate{50}: one
\* command and speed_mps still 0, where the other order would end with 50
C27_Witness ==
    /\ trace = <<TLimit(100), TLimit(35), TSpeed(50)>>
    /\ get_speed_mps = ToDouble(0)
    /\ get_last_known_speed_limit = 35
    /\ bus.commands_published = 1
    /\ UpdateThenLimit(AutoBrakeMembers, Unpublished(bus), ToDouble(30), 25).ab.speed_mps
       = ToDouble(30)

\* auto_brake_2 has been constructed on the bus that auto_brake is bound to
SecondIsOnSharedBus == ctor = [at |-> "done", bus |-> "bus"]

\* one run, on auto_brake_2 and bus, of the lambda that the delivery o is for
SecondHandlerRun(o) ==
    CASE IsSpeedUpdate(o) -> OnSpeedUpdate(auto_brake_2, bus, o.arg)
      [] IsCarDetected(o) -> OnCarDetected(auto_brake_2, bus, o.arg)
      [] IsSpeedLimit(o)  -> OnSpeedLimitDetected(auto_brake_2, bus, o.arg)

\* C28: once a second AutoBrake is constructed on the bus that already has one
\* bound to it, every event delivered through the callbacks of that bus is
\* handled by the second controller only: the first one's speed_mps and
\* last_known_speed_limit do not change, whether a command is published is
\* decided on the second one's fields alone, and the command is counted on
\* the commands_published of the shared bus.
C28_SecondControllerTakesOver ==
    [][LET o == LastOp(trace')
       IN  SecondIsOnSharedBus
           => /\ auto_brake'.speed_mps = auto_brake.speed_mps
              /\ auto_brake'.last_known_speed_limit = auto_brake.last_known_speed_limit
              /\ ((IsSpeedUpdate(o) \/ IsCarDetected(o) \/ IsSpeedLimit(o))
                  /\ o.on = "bus")
                 => /\ auto_brake' = auto_brake
                    /\ auto_brake_2' = SecondHandlerRun(o).ab
                    /\ bus' = SecondHandlerRun(o).bus
                    /\ bus_2' = bus_2
                    /\ thrown' = "none"]_vars

\* auto_brake stored 30 before auto_brake_2 was constructed on bus; then
\* SpeedLimitDetected{25} reached auto_brake_2 only, whose speed_mps is 0, and
\* nothing was published, where auto_brake would have braked
C28_Witness ==
    /\ trace = <<On(OpSpeedLimit(SpeedLimitDetected(25)), "bus")>>
    /\ SecondIsOnSharedBus
    /\ auto_brake.speed_mps = ToDouble(30)
    /\ auto_brake.last_known_speed_limit = 39
    /\ auto_brake_2.speed_mps = ToDouble(0)
    /\ auto_brake_2.last_known_speed_limit = 25
    /\ bus.commands_published = 0

\* C29, the states: last_known_speed_limit lies in 0..65535, and a
\* SpeedLimitDetected of any limit of the range (20, 100 and 820 among them)
\* would be read back exactly
C29_LimitIsUnsigned16 ==
    /\ get_last_known_speed_limit \in 0..USHRT_MAX
    /\ \A l \in LimitInputs \cup {20, 100, 820} :
           OnSpeedLimitDetected(auto_brake, Unpublished(bus),
                                SpeedLimitDetected(l)).ab.last_known_speed_limit = l

\* C29, the steps: a delivered limit is the limit read back after the
\* delivery; a SpeedUpdate{v} with v <= 0 is stored and publishes nothing
C29_LimitStoredAndNonPositiveSpeedStored ==
    LET o == LastOp(trace')
    IN  /\ IsSpeedLimit(o)
           => /\ o.arg.speed_mps \in 0..USHRT_MAX
              /\ get_last_known_speed_limit' = o.arg.speed_mps
        /\ (IsSpeedUpdate(o) /\ DLe(o.arg.velocity_mps, ToDouble(0)))
           => /\ get_speed_mps' = o.arg.velocity_mps
              /\ bus' = bus

\* C29: last_known_speed_limit is a 16-bit unsigned quantity.  In every
\* reachable state it lies in 0..65535; every delivered limit of that range is
\* stored and read back exactly; and, the limit never being negative, every
\* SpeedUpdate{v} with v <= 0 is stored in speed_mps and publishes no command.
C29_LimitIsUnsignedAndNonPositiveSpeedIsStored ==
    []C29_LimitIsUnsigned16 /\ [][C29_LimitStoredAndNonPositiveSpeedStored]_vars

\* SpeedUpdate{-0.0} under limit 0, after one command: stored, nothing more
\* published
C29_Witness ==
    /\ trace = <<OpSpeedUpdate(SpeedUpdate(NegZero))>>
    /\ get_last_known_speed_limit = 0
    /\ get_speed_mps = NegZero
    /\ bus.commands_published = 1

====
